---- MODULE Spec2Model ----
(***************************************************************************)
(* A model of autotrader/autobot.py: the AutoTraderBot update cycle.       *)
(*                                                                         *)
(* A pandas DataFrame or Series is a record [type, rows]; rows is the      *)
(* sequence of its rows in index order, each row [ts, vals]: ts is the     *)
(* row's index label (its timestamp) and vals the row's values by column.  *)
(* An OHLC DataFrame has the columns <<Open, Close>>; a Series obtained    *)
(* by iterating over the columns of a DataFrame has one value per row.     *)
(* A Python value that may be None is a sequence of length 0 (None) or 1.  *)
(* A call that may raise returns [raised, value]: raised is "" or the      *)
(* name of the exception.                                                  *)
(***************************************************************************)
EXTENDS Integers, Sequences, FiniteSets, TLC

VARIABLES
    cfg,            \* the options inherited from the AutoTrader instance and the strategy configuration
    data,           \* self.data
    multi_data,     \* self.multi_data
    auxdata,        \* self.auxdata
    quote_data,     \* self.quote_data
    strat_data,     \* self._strat_data
    last_bar,       \* self._last_bar
    latest_orders,  \* self._latest_orders
    scan_results,   \* self._scan_results
    backtest_summary, \* self.backtest_summary
    cycle,          \* what the last call of _update did (observation)
    history,        \* the bars generate_signal was invoked for and whether the cutoffs never went back (observation)
    arg,            \* the arguments of the function under test
    ret             \* its result

vars == <<cfg, data, multi_data, auxdata, quote_data, strat_data, last_bar,
          latest_orders, scan_results, backtest_summary, cycle, history, arg, ret>>

botvars == <<cfg, data, multi_data, auxdata, quote_data, strat_data, last_bar,
             latest_orders, scan_results, backtest_summary, cycle, history>>

(***************************************************************************)
(* Bounds of the model.                                                    *)
(***************************************************************************)
\* timestamps of bars are 1..MaxTime; cutoff timestamps are 0..MaxTime+1
MaxTime == 3
\* the longest list of orders a strategy returns
MaxLen == 3

Times == 1..MaxTime
Cutoffs == 0..(MaxTime + 1)
None == <<>>
Some(x) == <<x>>
Ok(v) == [raised |-> "", value |-> v]
Raise(e) == [raised |-> e, value |-> None]

Min(a, b) == IF a <= b THEN a ELSE b
Max(a, b) == IF a >= b THEN a ELSE b

(***************************************************************************)
(* pandas                                                                  *)
(***************************************************************************)
DataFrame(rows) == [type |-> "DataFrame", rows |-> rows]
Series(rows) == [type |-> "Series", rows |-> rows]
EmptyFrame == DataFrame(<<>>)

\* frame[frame.index < timestamp] and frame[frame.index <= timestamp]
Before(frame, timestamp) ==
    [frame EXCEPT !.rows = SelectSeq(frame.rows, LAMBDA r : r.ts < timestamp)]
UpTo(frame, timestamp) ==
    [frame EXCEPT !.rows = SelectSeq(frame.rows, LAMBDA r : r.ts <= timestamp)]

\* frame.tail(n) returning every row
tail_every_row(frame, n) == frame

\* frame.tail(n): the last n rows; no row for n = 0; all but the first -n rows for n < 0
tail(frame, n) ==
    LET len == Len(frame.rows)
    IN  [frame EXCEPT !.rows =
            IF n = 0 THEN <<>>
            ELSE IF n > 0 THEN SubSeq(frame.rows, Max(1, len - n + 1), len)
            ELSE SubSeq(frame.rows, Min(-n, len) + 1, len)]

\* str.lower() on the indexing strings of the model
lower(s) ==
    CASE s = "Open" -> "open"
      [] s = "Close" -> "close"
      [] OTHER -> s

\* isinstance(v, (pd.DataFrame, pd.Series))
IsTimeSeries(v) == v.type \in {"DataFrame", "Series"}

\* the set of timestamps of a frame
Index(frame) == {frame.rows[i].ts : i \in 1..Len(frame.rows)}

(***************************************************************************)
(* AutoTraderBot._check_ohlc_data (static)                                 *)
(* past_data is assigned only under check_for_future_data; reading it      *)
(* unassigned raises UnboundLocalError.                                    *)
(***************************************************************************)
_check_ohlc_data_open_inclusive(ohlc_data, timestamp, indexing, tail_bars, check_for_future_data) ==
    IF ~check_for_future_data THEN Raise("UnboundLocalError")
    ELSE IF lower(indexing) \notin {"open", "close"} THEN Raise("Exception")
    ELSE LET past_data == UpTo(ohlc_data, timestamp)
         IN  IF tail_bars # None THEN Ok(tail(past_data, tail_bars[1])) ELSE Ok(past_data)

_check_ohlc_data(ohlc_data, timestamp, indexing, tail_bars, check_for_future_data) ==
    IF ~check_for_future_data THEN Raise("UnboundLocalError")
    ELSE IF lower(indexing) \notin {"open", "close"} THEN Raise("Exception")
    ELSE LET past_data == IF lower(indexing) = "open"
                          THEN Before(ohlc_data, timestamp)
                          ELSE UpTo(ohlc_data, timestamp)
         IN  IF tail_bars # None THEN Ok(tail(past_data, tail_bars[1])) ELSE Ok(past_data)

(***************************************************************************)
(* Orders.  A value a strategy returns, or an entry of a list or dict it   *)
(* returns, is a record:                                                   *)
(*   py          "Order" (an Order object), "dict", "list" or "str"        *)
(*   order_type  None, or the order type (for a dict: None when the dict   *)
(*               has no key 'order_type')                                  *)
(*   direction   None, or -1, 0, 1                                         *)
(*   instrument  None, or the instrument                                   *)
(*   items       the items of a list, or the values of a dict that has no  *)
(*               key 'order_type', in iteration order                      *)
(*   id          the identity of the object                                *)
(* and the fields add_strategy_data and Order.__call__ set.                *)
(***************************************************************************)
Value(py, order_type, direction, instrument, items) ==
    [py |-> py, order_type |-> order_type, direction |-> direction,
     instrument |-> instrument, items |-> items, id |-> 0,
     strategy |-> None, granularity |-> None, sizing |-> None, risk_pc |-> None,
     order_price |-> None, HCF |-> None, order_time |-> None]

\* Order._from_dict(d): an Order with the attributes the dict gives
_from_dict(d) == [d EXCEPT !.py = "Order"]

isinstance(v, t) == v.py = t

\* the steps of check_type for one item of a list or of a dict of orders
check_item(self, item) ==
    IF isinstance(item, "dict") /\ item.order_type # None
    THEN Ok(_from_dict(IF item.instrument = None
                       THEN [item EXCEPT !.instrument = Some(self.instrument)]
                       ELSE item))
    ELSE IF isinstance(item, "Order") THEN Ok(item)
    ELSE Raise("Exception")

RECURSIVE check_items_skipping(_, _, _)
\* check_type with loops that pass over an item that is no order
check_items_skipping(self, checked_orders, items) ==
    IF items = <<>> THEN Ok(checked_orders)
    ELSE LET r == check_item(self, Head(items))
         IN  IF r.raised # "" THEN check_items_skipping(self, checked_orders, Tail(items))
             ELSE check_items_skipping(self, Append(checked_orders, r.value), Tail(items))

RECURSIVE check_items(_, _, _)
\* the for loops of check_type: the orders checked so far, then the remaining items
check_items(self, checked_orders, items) ==
    IF items = <<>> THEN Ok(checked_orders)
    ELSE LET rest(r) ==
                 IF r.raised # "" THEN Raise(r.raised)
                 ELSE check_items(self, Append(checked_orders, r.value), Tail(items))
         IN  rest(check_item(self, Head(items)))

\* _check_orders.check_type; its last branch formats `item`, which is unbound there
check_type(self, orders) ==
    IF isinstance(orders, "dict")
    THEN IF orders.order_type # None THEN check_items(self, <<>>, <<orders>>)
         ELSE check_items(self, <<>>, orders.items)
    ELSE IF isinstance(orders, "Order") THEN Ok(<<orders>>)
    ELSE IF isinstance(orders, "list") THEN check_items(self, <<>>, orders.items)
    ELSE Raise("UnboundLocalError")

\* add_strategy_data giving every order the instrument of the bot
add_strategy_data_bot_instrument(self, orders) ==
    [i \in 1..Len(orders) |->
        [orders[i] EXCEPT
            !.instrument = Some(self.instrument),
            !.strategy = Some(self.strategy_name),
            !.granularity = Some(self.granularity),
            !.sizing = Some(self.sizing),
            !.risk_pc = Some(self.risk_pc)]]

\* _check_orders.add_strategy_data
add_strategy_data(self, orders) ==
    [i \in 1..Len(orders) |->
        [orders[i] EXCEPT
            !.instrument = IF @ = None THEN Some(self.instrument) ELSE @,
            !.strategy = Some(self.strategy_name),
            !.granularity = Some(self.granularity),
            !.sizing = Some(self.sizing),
            !.risk_pc = Some(self.risk_pc)]]

DirectionalTypes == {"market", "limit", "stop-limit", "reduce"}

\* `not order.direction`: None and 0 are false
NoDirection(order) == order.direction = None \/ order.direction = Some(0)

RemoveAt(s, i) == SubSeq(s, 1, i - 1) \o SubSeq(s, i + 1, Len(s))

RECURSIVE check_order_details_off_by_one(_, _)
\* check_order_details deleting the element after the one it found
check_order_details_off_by_one(orders, ix) ==
    IF ix > Len(orders) THEN orders
    ELSE IF orders[ix].order_type[1] \in DirectionalTypes /\ NoDirection(orders[ix])
         THEN check_order_details_off_by_one(RemoveAt(orders, ix + 1), ix + 1)
         ELSE check_order_details_off_by_one(orders, ix + 1)

RECURSIVE check_order_details(_, _)
\* _check_orders.check_order_details: enumerate(orders) from position ix (counted
\* from 1 here), deleting from the list it iterates over; the iterator's position
\* advances past the element that moved into the deleted one's place
check_order_details(orders, ix) ==
    IF ix > Len(orders) THEN orders
    ELSE IF orders[ix].order_type[1] \in DirectionalTypes /\ NoDirection(orders[ix])
         THEN check_order_details(RemoveAt(orders, ix), ix + 1)
         ELSE check_order_details(orders, ix + 1)

\* AutoTraderBot._check_orders
_check_orders(self, orders) ==
    LET details(checked_orders) ==
            IF checked_orders.raised # "" THEN checked_orders
            ELSE Ok(check_order_details(add_strategy_data(self, checked_orders.value), 1))
    IN  details(check_type(self, orders))

(***************************************************************************)
(* Data.  A Python dict of datasets is [type |-> "dict", items]; items is  *)
(* the sequence of its [key, value] pairs in insertion order.              *)
(***************************************************************************)
Item(k, v) == [key |-> k, value |-> v]
Dict(items) == [type |-> "dict", items |-> items]
HasKey(d, k) == \E n \in 1..Len(d.items) : d.items[n].key = k
Get(d, k) == LET n == CHOOSE n \in 1..Len(d.items) : d.items[n].key = k IN d.items[n].value
len(frame) == Len(frame.rows)

\* frame[frame.index.isin(common_index)]
Restrict(frame, common_index) ==
    [frame EXCEPT !.rows = SelectSeq(frame.rows, LAMBDA r : r.ts \in common_index)]

\* _match_quote_data without the intersection with the other dataset
_match_quote_data_own_index(dataset, quote_dataset) ==
    LET datasets == <<dataset, quote_dataset>>
    IN  [n \in 1..2 |-> Restrict(datasets[n], Index(datasets[n]))]

\* _match_quote_data adjusting the quote data only
_match_quote_data_quote_only(dataset, quote_dataset) ==
    <<dataset, Restrict(quote_dataset, Index(dataset) \cap Index(quote_dataset))>>

\* AutoTraderBot._match_quote_data
_match_quote_data(dataset, quote_dataset) ==
    LET datasets == <<dataset, quote_dataset>>
        common_index(n) == (Index(datasets[n]) \cap Index(dataset)) \cap Index(quote_dataset)
    IN  [n \in 1..2 |-> Restrict(datasets[n], common_index(n))]

\* AutoTraderBot._retrieve_data; fetched is what the data source returns: the
\* dataset of each granularity, the quote data and, when auxiliary data files are
\* given, the dataset of each file of the dict self.auxdata.  The loop over the
\* auxiliary files assigns each dataset to `data`, so that the last one replaces the
\* base dataset before the quote data is matched: [raised, data, multi_data,
\* quote_data, auxdata]
_retrieve_data(self, fetched) ==
    LET first == fetched.granularities[1].value
        loaded == IF fetched.aux = None THEN <<>> ELSE fetched.aux[1].items
        dataset == IF Len(loaded) > 0 THEN loaded[Len(loaded)].value ELSE first
        multi_data_ == IF self.data_filepaths = "str"
                          \/ (self.data_filepaths = "None" /\ Len(fetched.granularities) = 1)
                       THEN None ELSE Some(Dict(fetched.granularities))
        returned(matched) ==
            [raised |-> "", data |-> matched[1], multi_data |-> multi_data_,
             quote_data |-> matched[2], auxdata |-> fetched.aux]
    IN  IF ~IsTimeSeries(dataset)
        THEN [raised |-> "AttributeError", data |-> dataset, multi_data |-> multi_data_,
              quote_data |-> fetched.quote, auxdata |-> fetched.aux]
        ELSE returned(_match_quote_data(dataset, fetched.quote))

\* _refresh_data assigning the bot's attributes before it checks the data returned
_refresh_data_assign_first(self, fetched) ==
    LET assigned(r) ==
            LET base == IF r.multi_data = None THEN r.data ELSE r.multi_data[1]
                bundle == IF r.auxdata # None
                          THEN Dict(<<Item("base", base), Item("aux", r.auxdata[1])>>)
                          ELSE base
                me == [self EXCEPT !.strat_data = bundle, !.data = r.data,
                                   !.multi_data = r.multi_data, !.auxdata = r.auxdata,
                                   !.quote_data = r.quote_data]
            IN  IF r.raised # ""
                THEN [raised |-> r.raised, self |-> self, retrieved |-> None]
                ELSE IF len(r.data) = 0
                THEN [raised |-> "Exception", self |-> me, retrieved |-> Some(0)]
                ELSE [raised |-> "", retrieved |-> Some(len(r.data)), self |-> me]
    IN  assigned(_retrieve_data(self, fetched))

\* AutoTraderBot._refresh_data: [raised, self, retrieved], retrieved being the number
\* of rows of the data _retrieve_data returned, if it returned
_refresh_data(self, fetched) ==
    LET assigned(r) ==
            LET base == IF r.multi_data = None THEN r.data ELSE r.multi_data[1]
                bundle == IF r.auxdata # None
                          THEN Dict(<<Item("base", base), Item("aux", r.auxdata[1])>>)
                          ELSE base
            IN  IF r.raised # ""
                THEN [raised |-> r.raised, self |-> self, retrieved |-> None]
                ELSE IF len(r.data) = 0
                THEN [raised |-> "Exception", self |-> self, retrieved |-> Some(0)]
                ELSE [raised |-> "", retrieved |-> Some(len(r.data)),
                      self |-> [self EXCEPT !.strat_data = bundle, !.data = r.data,
                                            !.multi_data = r.multi_data,
                                            !.auxdata = r.auxdata,
                                            !.quote_data = r.quote_data]]
    IN  assigned(_retrieve_data(self, fetched))

(***************************************************************************)
(* Windowing of the strategy data                                          *)
(***************************************************************************)
\* the result of a sequence of calls that may raise: the first exception, or the values
RECURSIVE Collect(_, _)
Collect(results, done) ==
    IF results = <<>> THEN Ok(done)
    ELSE IF Head(results).raised # "" THEN Raise(Head(results).raised)
    ELSE Collect(Tail(results), Append(done, Head(results).value))

\* DataFrame.items(): the columns, each a Series; dict.items()
ColumnNames == <<"Open", "Close">>
items(d) ==
    IF d.type = "dict" THEN d.items
    ELSE [c \in 1..Len(ColumnNames) |->
            Item(ColumnNames[c],
                 Series([n \in 1..Len(d.rows) |->
                            [ts |-> d.rows[n].ts, vals |-> <<d.rows[n].vals[c]>>]]))]

\* _check_auxdata handing every value over as it is
_check_auxdata_unchecked(aux, timestamp, indexing, tail_bars, check_for_future_data) ==
    IF check_for_future_data THEN Ok(aux) ELSE Raise("UnboundLocalError")

\* AutoTraderBot._check_auxdata
_check_auxdata(aux, timestamp, indexing, tail_bars, check_for_future_data) ==
    LET processed(its) ==
            LET keyed(r) ==
                    IF r.raised # "" THEN r
                    ELSE Ok(Dict([n \in 1..Len(its) |-> Item(its[n].key, r.value[n])]))
            IN  keyed(Collect([n \in 1..Len(its) |->
                                 IF IsTimeSeries(its[n].value)
                                 THEN _check_ohlc_data(its[n].value, timestamp, indexing,
                                                       tail_bars, check_for_future_data)
                                 ELSE Ok(its[n].value)], <<>>))
    IN  processed(items(aux))

\* a row of a DataFrame is a Series named by its timestamp; an element of a Series is a number
Row(r) == [type |-> "Series", name |-> Some(r.ts), vals |-> r.vals]
Scalar(r) == [type |-> "float64", name |-> None, vals |-> r.vals]

\* _check_data.get_current_bar
get_current_bar(d) ==
    IF len(d) > 0
    THEN Some(IF d.type = "DataFrame" THEN Row(d.rows[len(d)]) ELSE Scalar(d.rows[len(d)]))
    ELSE None

\* _check_data.process_strat_data: [raised, strat_data, current_bar, sufficient_data]
process_strat_data(original_strat_data, timestamp, indexing, bars, check_for_future_data) ==
    LET failed(e) == [raised |-> e, strat_data |-> None, current_bar |-> None,
                      sufficient_data |-> FALSE]
        \* a dict: the auxiliary data, then every dataset of the base data
        multiple(has_aux, processed_auxdata, its) ==
            LET assembled(processed_basedata) ==
                    [raised |-> "",
                     strat_data |-> Some(IF has_aux
                                         THEN Dict(<<Item("aux", processed_auxdata.value),
                                                     Item("base", processed_basedata)>>)
                                         ELSE processed_basedata),
                     current_bar |-> get_current_bar(processed_basedata.items[1].value),
                     sufficient_data |-> ~(len(processed_basedata.items[1].value) < bars)]
                keyed(based) ==
                    IF based.raised # "" THEN failed(based.raised)
                    ELSE IF Len(its) = 0 THEN failed("IndexError")
                    ELSE assembled(Dict([n \in 1..Len(its) |->
                                            Item(its[n].key, based.value[n])]))
            IN  IF processed_auxdata.raised # "" THEN failed(processed_auxdata.raised)
                ELSE keyed(Collect([n \in 1..Len(its) |->
                                      _check_ohlc_data(its[n].value, timestamp, indexing,
                                                       Some(bars), check_for_future_data)],
                                   <<>>))
        \* a single DataFrame
        single(r) ==
            IF r.raised # "" THEN failed(r.raised)
            ELSE [raised |-> "", strat_data |-> Some(r.value),
                  current_bar |-> get_current_bar(r.value),
                  sufficient_data |-> ~(len(r.value) < bars)]
    IN
    IF original_strat_data.type = "dict"
    THEN IF HasKey(original_strat_data, "aux")
         THEN multiple(TRUE,
                       _check_auxdata(Get(original_strat_data, "aux"), timestamp, indexing,
                                      Some(bars), check_for_future_data),
                       items(Get(original_strat_data, "base")))
         ELSE multiple(FALSE, Ok(None), items(original_strat_data))
    ELSE IF original_strat_data.type = "DataFrame"
    THEN single(_check_ohlc_data(original_strat_data, timestamp, indexing, Some(bars),
                                 check_for_future_data))
    ELSE failed("Exception")

(***************************************************************************)
(* The update cycle.  self is the bot: its options and its attributes.     *)
(* calls is the sequence of the calls the cycle made to the strategy, the  *)
(* broker, the data source and the notification functions, in order.       *)
(***************************************************************************)
Call(op, order, info) == [op |-> op, order |-> order, info |-> info]

\* AutoTraderBot._check_data: [raised, self, strat_data, current_bar, quote_bar,
\* sufficient_data, calls]
_check_data(self, timestamp, indexing, fetched) ==
    LET failed(e, me, calls) ==
            [raised |-> e, self |-> me, strat_data |-> None, current_bar |-> None,
             quote_bar |-> None, sufficient_data |-> FALSE, calls |-> calls]
        bars == self.period
        check_for_future_data == self.backtest_mode
        processed(refreshed) ==
            LET calls == IF self.backtest_mode THEN <<>>
                         ELSE <<Call("_retrieve_data", None, refreshed.retrieved)>>
                quoted(p) ==
                    LET returned(quote) ==
                            IF quote.raised # "" THEN failed(quote.raised, refreshed.self, calls)
                            ELSE [raised |-> "", self |-> refreshed.self,
                                  strat_data |-> p.strat_data,
                                  current_bar |-> p.current_bar,
                                  quote_bar |-> get_current_bar(quote.value),
                                  sufficient_data |-> p.sufficient_data, calls |-> calls]
                    IN  IF p.raised # "" THEN failed(p.raised, refreshed.self, calls)
                        ELSE returned(_check_ohlc_data(refreshed.self.quote_data, timestamp,
                                                       indexing, Some(bars), TRUE))
            IN  IF refreshed.raised # "" THEN failed(refreshed.raised, refreshed.self, calls)
                ELSE quoted(process_strat_data(refreshed.self.strat_data, timestamp, indexing,
                                               bars, check_for_future_data))
    IN  processed(IF self.backtest_mode
                  THEN [raised |-> "", self |-> self, retrieved |-> None]
                  ELSE _refresh_data(self, fetched))

\* (current_bar == self._last_bar).all(): the values are compared, the name is not
AllEqual(current_bar, stored_bar) ==
    IF current_bar = None THEN FALSE ELSE current_bar[1].vals = stored_bar[1].vals

\* _check_last_bar storing the bar before it compares
_check_last_bar_store_first(self, current_bar) ==
    IF self.run_mode = "continuous"
    THEN [duplicate |-> IF current_bar # None THEN AllEqual(current_bar, current_bar)
                        ELSE FALSE,
          self |-> [self EXCEPT !.last_bar = current_bar]]
    ELSE [duplicate |-> FALSE, self |-> self]

\* _check_last_bar storing the bar and finding no duplicate
_check_last_bar_never(self, current_bar) ==
    [duplicate |-> FALSE,
     self |-> IF self.run_mode = "continuous" THEN [self EXCEPT !.last_bar = current_bar]
              ELSE self]

\* _check_last_bar comparing and storing in periodic mode too
_check_last_bar_in_every_mode(self, current_bar) ==
    [duplicate |-> IF self.last_bar # None THEN AllEqual(current_bar, self.last_bar)
                   ELSE FALSE,
     self |-> [self EXCEPT !.last_bar = current_bar]]

\* _check_last_bar comparing the bar and not storing it
_check_last_bar_compare_only(self, current_bar) ==
    IF self.run_mode = "continuous"
    THEN [duplicate |-> IF self.last_bar # None THEN AllEqual(current_bar, self.last_bar)
                        ELSE FALSE,
          self |-> self]
    ELSE [duplicate |-> FALSE, self |-> self]

\* _check_last_bar keeping the stored bar when the current bar is None
_check_last_bar_keep_on_none(self, current_bar) ==
    IF self.run_mode = "continuous"
    THEN [duplicate |-> IF self.last_bar # None THEN AllEqual(current_bar, self.last_bar)
                        ELSE FALSE,
          self |-> IF current_bar = None THEN self
                   ELSE [self EXCEPT !.last_bar = current_bar]]
    ELSE [duplicate |-> FALSE, self |-> self]

\* AutoTraderBot._check_last_bar: [duplicate, self]
_check_last_bar(self, current_bar) ==
    IF self.run_mode = "continuous"
    THEN [duplicate |-> IF self.last_bar # None THEN AllEqual(current_bar, self.last_bar)
                        ELSE FALSE,
          self |-> [self EXCEPT !.last_bar = current_bar]]
    ELSE [duplicate |-> FALSE, self |-> self]

\* GetData._pseduo_liveprice(last, quote_price) and the live price of the feed
Quote(kind, last, quote_price) ==
    [bid |-> <<kind, "bid", last>>, ask |-> <<kind, "ask", last>>,
     negativeHCF |-> <<kind, "negativeHCF", quote_price>>,
     positiveHCF |-> <<kind, "positiveHCF", quote_price>>]

\* bar.Close: a row has the column, a number has no such attribute
HasClose(bar) == bar # None /\ bar[1].type = "Series"
Close(bar) == bar[1].vals[2]

RECURSIVE _qualify_orders_ask_side(_, _, _, _, _, _)
\* _qualify_orders taking the ask side of the quote for every order
_qualify_orders_ask_side(self, orders, current_bar, quote_bar, n, calls) ==
    IF n > Len(orders) THEN [raised |-> "", orders |-> orders, calls |-> calls]
    ELSE LET order == orders[n]
             last_price == IF self.req_liveprice THEN Quote("live", 0, 0)
                           ELSE Quote("pseudo", Close(current_bar), Close(quote_bar))
             negative == FALSE
             qualified == [order EXCEPT
                              !.order_price = Some(IF negative THEN last_price.bid
                                                   ELSE last_price.ask),
                              !.HCF = Some(IF negative THEN last_price.negativeHCF
                                           ELSE last_price.positiveHCF)]
         IN  IF ~self.req_liveprice /\ ~(HasClose(current_bar) /\ HasClose(quote_bar))
             THEN [raised |-> "AttributeError", orders |-> orders, calls |-> calls]
             ELSE IF order.direction = None
             THEN [raised |-> "TypeError", orders |-> orders,
                   calls |-> Append(calls, Call("liveprice", Some(order), None))]
             ELSE _qualify_orders_ask_side(self, [orders EXCEPT ![n] = qualified], current_bar,
                                  quote_bar, n + 1,
                                  calls \o <<Call("liveprice", Some(order), None),
                                             Call("Order.__call__", Some(qualified), None)>>)

RECURSIVE _qualify_orders(_, _, _, _, _, _)
\* AutoTraderBot._qualify_orders from position n of the list on: [raised, orders, calls]
_qualify_orders(self, orders, current_bar, quote_bar, n, calls) ==
    IF n > Len(orders) THEN [raised |-> "", orders |-> orders, calls |-> calls]
    ELSE LET order == orders[n]
             last_price == IF self.req_liveprice THEN Quote("live", 0, 0)
                           ELSE Quote("pseudo", Close(current_bar), Close(quote_bar))
             negative == order.direction[1] < 0
             qualified == [order EXCEPT
                              !.order_price = Some(IF negative THEN last_price.bid
                                                   ELSE last_price.ask),
                              !.HCF = Some(IF negative THEN last_price.negativeHCF
                                           ELSE last_price.positiveHCF)]
         IN  IF ~self.req_liveprice /\ ~(HasClose(current_bar) /\ HasClose(quote_bar))
             THEN [raised |-> "AttributeError", orders |-> orders, calls |-> calls]
             ELSE IF order.direction = None
             THEN [raised |-> "TypeError", orders |-> orders,
                   calls |-> Append(calls, Call("liveprice", Some(order), None))]
             ELSE _qualify_orders(self, [orders EXCEPT ![n] = qualified], current_bar,
                                  quote_bar, n + 1,
                                  calls \o <<Call("liveprice", Some(order), None),
                                             Call("Order.__call__", Some(qualified), None)>>)

\* bar.name: a row is named by its timestamp, a number has no such attribute
HasName(bar) == bar # None /\ bar[1].type = "Series"

RECURSIVE Submit(_, _, _, _, _)
\* the loop of _update over the qualified orders, from position n on: [raised, self, calls]
Submit(self, orders, current_bar, n, calls) ==
    IF n > Len(orders) THEN [raised |-> "", self |-> self, calls |-> calls]
    ELSE IF self.scan_mode
    THEN IF ~HasClose(current_bar)
         THEN [raised |-> "AttributeError", self |-> self, calls |-> calls]
         ELSE Submit([self EXCEPT !.scan_results =
                         Some([entry |-> Close(current_bar), signal |-> orders[n].direction])],
                     orders, current_bar, n + 1, calls)
    ELSE IF ~HasName(current_bar)
         THEN [raised |-> "AttributeError", self |-> self, calls |-> calls]
         ELSE Submit([self EXCEPT !.latest_orders = Append(@, orders[n])],
                     orders, current_bar, n + 1,
                     Append(calls, Call("place_order", Some(orders[n]), current_bar[1].name)))

\* the notifications of _update for the orders placed and the scan report
Notify(self) ==
    LET emails == self.mailing_list /\ self.host_email
        n == Len(self.latest_orders)
        placed == IF self.notify > 0 /\ ~self.backtest_mode
                  THEN [k \in 1..n |-> Call("write_to_order_summary",
                                            Some(self.latest_orders[k]), None)]
                       \o (IF self.notify > 1 /\ emails
                           THEN [k \in 1..n |-> Call("send_order",
                                                     Some(self.latest_orders[k]), None)]
                           ELSE <<>>)
                  ELSE <<>>
        printed == IF self.verbosity > 0 \/ self.notify = 0
                   THEN <<Call("print", None, self.scan_results)>> ELSE <<>>
        mailed == IF self.notify > 0
                     /\ ((self.scan_results # None /\ emails) \/ (self.notify > 1 /\ emails))
                  THEN <<Call("send_scan_results", None, self.scan_results)>> ELSE <<>>
    IN  placed \o (IF self.scan_mode THEN printed \o mailed ELSE <<>>)

\* DataFrame.iloc[i] for i >= 0
InRange(d, i) == i < len(d)
iloc(d, i) == Some(Row(d.rows[i + 1]))

\* what a cycle did
Obs(i, timestamp, before, raised, outcome, r, signal, orders, calls) ==
    [i |-> i, timestamp |-> timestamp, before |-> before, raised |-> raised,
     outcome |-> outcome, sufficient_data |-> r.sufficient_data, duplicate |-> r.duplicate,
     current_bar |-> r.current_bar, quote_bar |-> r.quote_bar, strat_data |-> r.strat_data,
     invoked |-> signal # None, signal |-> signal, orders |-> orders, calls |-> calls]

\* the attributes of the bot before the cycle that a skipped cycle is said to keep
Snapshot(self) ==
    [last_bar |-> self.last_bar, latest_orders |-> self.latest_orders,
     scan_results |-> self.scan_results]

\* the first statement of _update
reset_latest_orders_and_scan_results(self) ==
    [self EXCEPT !.latest_orders = <<>>, !.scan_results = None]

reset_latest_orders(self) == [self EXCEPT !.latest_orders = <<>>]

\* the condition of _update under which the cycle goes on to the strategy
proceed_on_either(sufficient_data, duplicate_data) == sufficient_data \/ ~duplicate_data

proceed(sufficient_data, duplicate_data) == sufficient_data /\ ~duplicate_data

\* _update_backtest updating the virtual broker twice
_update_backtest_twice(self, current_bar) ==
    <<Call("_update_positions", None, current_bar),
      Call("_update_positions", None, current_bar)>>

\* AutoTraderBot._update_backtest: the calls it makes
_update_backtest(self, current_bar) == <<Call("_update_positions", None, current_bar)>>

\* AutoTraderBot._update(i, timestamp); signal is what generate_signal returns when
\* it is called and fetched what the data source returns when it is asked:
\* [self, obs]
_update(self, i, timestamp, signal, fetched) ==
    LET continuous == self.run_mode = "continuous"
        nothing == [sufficient_data |-> None, duplicate |-> None, current_bar |-> None,
                    quote_bar |-> None, strat_data |-> None]
        positions == IF self.INCLUDE_POSITIONS
                     THEN <<Call("get_positions", None, None)>> ELSE <<>>
        aborted(before, me, e, r, returned, orders, calls) ==
            [self |-> me,
             obs |-> Obs(i, timestamp, before, e, "raised", r, returned, orders, calls)]
        \* the cycle from the duplicate check on
        resolved(before, me1, calls1, current_bar, quote_bar, sufficient_data, strat) ==
            LET compared(last) ==
                    LET me2 == last.self
                        r == [sufficient_data |-> Some(sufficient_data),
                              duplicate |-> Some(last.duplicate),
                              current_bar |-> current_bar, quote_bar |-> quote_bar,
                              strat_data |-> strat]
                        calls2 == calls1
                                  \o (IF self.backtest_mode
                                      THEN _update_backtest(me2, current_bar)
                                      ELSE <<>>)
                                  \o <<Call("generate_signal", None,
                                            IF continuous THEN strat ELSE Some(i))>>
                        checked(orders) ==
                            LET qualified(q) ==
                                    LET submitted(s) ==
                                            IF s.raised # ""
                                            THEN aborted(before, s.self, s.raised, r,
                                                         Some(signal), Some(orders.value),
                                                         s.calls)
                                            ELSE [self |-> s.self,
                                                  obs |-> Obs(i, timestamp, before, "", "ran",
                                                              r, Some(signal),
                                                              Some(orders.value),
                                                              s.calls \o Notify(s.self))]
                                    IN  IF q.raised # ""
                                        THEN aborted(before, me2, q.raised, r, Some(signal),
                                                     Some(orders.value), q.calls)
                                        ELSE submitted(Submit(me2, q.orders, current_bar, 1,
                                                              q.calls))
                            IN  IF orders.raised # ""
                                THEN aborted(before, me2, orders.raised, r, Some(signal), None,
                                             calls2)
                                ELSE qualified(_qualify_orders(me2, orders.value, current_bar,
                                                               quote_bar, 1, calls2))
                    IN  IF ~proceed(sufficient_data, last.duplicate)
                        THEN [self |-> me2,
                              obs |-> Obs(i, timestamp, before, "", "skipped", r, None, None,
                                          calls1)]
                        ELSE checked(_check_orders(me2, signal))
            IN  compared(_check_last_bar(me1, current_bar))
        \* the cycle after its first statement
        started(before, reset) ==
            LET windowed(d) ==
                    IF d.raised # ""
                    THEN aborted(before, d.self, d.raised, nothing, None, None, d.calls)
                    ELSE resolved(before, d.self, d.calls, d.current_bar, d.quote_bar,
                                  d.sufficient_data, d.strat_data)
            IN  IF continuous
                THEN windowed(_check_data(reset, timestamp, self.data_indexing, fetched))
                ELSE IF ~(InRange(reset.data, i) /\ InRange(reset.quote_data, i))
                THEN aborted(before, reset, "IndexError", nothing, None, None, positions)
                ELSE resolved(before, reset, positions, iloc(reset.data, i),
                              iloc(reset.quote_data, i), TRUE, None)
    IN  started(Snapshot(self), reset_latest_orders(self))

(***************************************************************************)
(* The environment: configurations, datasets and strategy outputs          *)
(***************************************************************************)
RECURSIVE RowsOf(_, _, _)
\* the rows at the timestamps S from t on, in index order, with the values f gives
RowsOf(S, f, t) ==
    IF t > MaxTime THEN <<>>
    ELSE (IF t \in S THEN <<[ts |-> t, vals |-> f[t]]>> ELSE <<>>) \o RowsOf(S, f, t + 1)

\* the OHLC DataFrames with an index in Indexes and row values in Values
Frames(Indexes, Values) ==
    UNION {{DataFrame(RowsOf(S, f, 1)) : f \in [S -> Values]} : S \in Indexes}

Flat == {<<1, 1>>}

\* the DataFrames with a bar at every timestamp whose values change at most once
Stepped ==
    {DataFrame(RowsOf(Times, [t \in Times |-> IF t < step THEN <<1, 1>> ELSE <<1, 2>>], 1)) :
        step \in 2..(MaxTime + 1)}

Options ==
    [instrument : {"EURUSD"}, strategy_name : {"MACD"}, sizing : {"risk"}, risk_pc : {1},
     granularity : {"g1", "g1,g2"}, data_filepaths : {"str", "dict", "None"},
     aux : BOOLEAN, period : {1, 2},
     run_mode : {"continuous", "periodic"}, backtest_mode : BOOLEAN, scan_mode : BOOLEAN,
     data_indexing : {"open", "close", "hourly"}, req_liveprice : BOOLEAN,
     notify : {0, 2}, verbosity : {0}, mailing_list : {TRUE}, host_email : {TRUE},
     INCLUDE_POSITIONS : {TRUE}]

\* local data (one file, or a file per granularity) in a backtest, a download otherwise
Consistent(c) ==
    /\ c.data_filepaths = "str" => c.granularity = "g1"
    /\ c.data_filepaths = "dict" => c.granularity = "g1,g2"
    /\ c.backtest_mode <=> c.data_filepaths # "None"

Plain(c) == ~c.aux /\ c.granularity = "g1" /\ ~c.req_liveprice /\ c.data_indexing = "open"

\* the configurations of the model
Configs ==
    {c \in Options :
        /\ Consistent(c)
        /\ \/ \* a backtest in continuous mode over every shape of strategy data
              /\ c.backtest_mode /\ c.run_mode = "continuous" /\ ~c.scan_mode
              /\ c.notify = 0 /\ c.period = 2 /\ ~c.req_liveprice
              /\ c.data_indexing \in {"open", "close"}
           \/ \* with one bar of lookback, scanning, an unknown indexing, or live prices
              /\ c.backtest_mode /\ c.run_mode = "continuous" /\ c.granularity = "g1"
              /\ \/ Plain(c) /\ c.period = 1 /\ ~c.scan_mode /\ c.notify = 0
                 \/ Plain(c) /\ c.period = 2 /\ c.scan_mode
                 \/ /\ ~c.aux /\ ~c.req_liveprice /\ c.data_indexing = "hourly"
                    /\ c.period = 1 /\ ~c.scan_mode /\ c.notify = 0
                 \/ /\ c.aux /\ c.req_liveprice /\ c.data_indexing = "open"
                    /\ c.period = 1 /\ c.notify = 0
           \/ \* periodic mode
              /\ c.run_mode = "periodic" /\ Plain(c) /\ c.period = 1
              /\ c.notify = 0 <=> c.backtest_mode
              /\ c.scan_mode => ~c.backtest_mode
           \/ \* live trading in continuous mode
              /\ ~c.backtest_mode /\ c.run_mode = "continuous" /\ ~c.scan_mode
              /\ ~c.aux /\ ~c.req_liveprice /\ c.data_indexing \in {"open", "hourly"}
              /\ c.period = 1 /\ c.notify = 0}

\* self._strategy_params['granularity'].split(',')
split(granularity) == IF granularity = "g1" THEN <<"g1">> ELSE <<"g1", "g2">>

\* what the data source returns for a bot: the base granularity with every bar or
\* with none, a coarser second granularity, quote data that may miss a bar or have
\* none, and for the auxiliary
\* files a value that is no time series and a DataFrame with the bars of the base
\* granularity at another Open
Fetches(c) ==
    {[granularities |->
         [n \in 1..Len(split(c.granularity)) |->
             Item(split(c.granularity)[n],
                  IF n = 1 THEN base
                  ELSE DataFrame(RowsOf({1, MaxTime}, [t \in Times |-> <<1, 1>>], 1)))],
      quote |-> quote,
      aux |-> IF c.aux
              THEN Some(Dict(<<Item("calendar", [type |-> "list",
                                                 rows |-> <<[ts |-> MaxTime, vals |-> <<1>>]>>]),
                               Item("rates", DataFrame([n \in 1..Len(base.rows) |->
                                                [base.rows[n] EXCEPT !.vals[1] = 2]]))>>))
              ELSE None] :
        base \in Stepped \cup {EmptyFrame},
        quote \in Frames({Times, Times \ {2}, {}}, Flat)}

Market(py, direction) == Value(py, Some("market"), direction, None, <<>>)
List(its) == Value("list", None, None, None, its)

\* what generate_signal returns in the cycles of the model
Signals ==
    {List(<<>>),
     List(<<Market("dict", Some(1))>>),
     Value("Order", Some("market"), Some(-1), Some("GBPUSD"), <<>>),
     List(<<Market("dict", Some(1)), Value("Order", Some("close"), None, None, <<>>)>>),
     List(<<Market("dict", Some(1)), Value("str", None, None, None, <<>>)>>),
     Value("dict", None, None, None, <<Market("Order", Some(1)), Value("dict", None, None, None, <<>>)>>),
     Value("str", None, None, None, <<>>)}

(***************************************************************************)
(* The bot                                                                 *)
(***************************************************************************)
Attributes ==
    [data |-> data, multi_data |-> multi_data, auxdata |-> auxdata,
     quote_data |-> quote_data, strat_data |-> strat_data, last_bar |-> last_bar,
     latest_orders |-> latest_orders, scan_results |-> scan_results,
     backtest_summary |-> backtest_summary]

\* the bot as the methods see it
Self == cfg @@ Attributes

Assign(self) ==
    /\ data' = self.data
    /\ multi_data' = self.multi_data
    /\ auxdata' = self.auxdata
    /\ quote_data' = self.quote_data
    /\ strat_data' = self.strat_data
    /\ last_bar' = self.last_bar
    /\ latest_orders' = self.latest_orders
    /\ scan_results' = self.scan_results
    /\ backtest_summary' = self.backtest_summary

NoCycle ==
    Obs(0, 0, [last_bar |-> None, latest_orders |-> <<>>, scan_results |-> None], "", "none",
        [sufficient_data |-> None, duplicate |-> None, current_bar |-> None,
         quote_bar |-> None, strat_data |-> None], None, None, <<>>)

\* AutoTraderBot.__init__: the state of a bot that was constructed
Constructed(c, fetched) ==
    LET blank == c @@ [data |-> EmptyFrame, multi_data |-> None, auxdata |-> None,
                       quote_data |-> EmptyFrame, strat_data |-> EmptyFrame,
                       last_bar |-> None, latest_orders |-> <<>>, scan_results |-> None,
                       backtest_summary |-> None]
    IN  \E r \in {_refresh_data(blank, fetched)} :
        /\ r.raised = ""
        /\ cfg = c
        /\ data = r.self.data
        /\ multi_data = r.self.multi_data
        /\ auxdata = r.self.auxdata
        /\ quote_data = r.self.quote_data
        /\ strat_data = r.self.strat_data
        /\ last_bar = None
        /\ latest_orders = <<>>
        /\ scan_results = None
        /\ backtest_summary = None

\* the timestamp of the bar a cycle resolved: the last row of the first windowed base series
LastRow(d) == IF d.type = "dict" THEN d.items[1].value.rows ELSE d.rows
ResolvedRows(bundle) ==
    LastRow(IF bundle.type = "dict" /\ HasKey(bundle, "aux") THEN Get(bundle, "base") ELSE bundle)
Resolved(obs) ==
    IF obs.strat_data = None \/ ResolvedRows(obs.strat_data[1]) = <<>> THEN 0
    ELSE LET rows == ResolvedRows(obs.strat_data[1]) IN rows[Len(rows)].ts

NoHistory ==
    [invoked |-> {}, again |-> FALSE, monotone |-> TRUE, repeated |-> FALSE, retried |-> FALSE]

\* the bars generate_signal was called for in continuous mode, whether it was called
\* again for one of them, whether the cutoff timestamps never went back, and whether
\* in periodic mode it was called in two cycles in a row with the same index; and
\* whether the cycle resolved the bar of the cycle before it, which had raised after
\* the duplicate check
Record(obs) ==
    [invoked |-> IF obs.invoked /\ cfg.run_mode = "continuous"
                 THEN history.invoked \cup {Resolved(obs)} ELSE history.invoked,
     again |-> history.again \/ (/\ obs.invoked /\ cfg.run_mode = "continuous"
                                 /\ Resolved(obs) \in history.invoked),
     monotone |-> history.monotone /\ (cycle.outcome = "none" \/ cycle.timestamp <= obs.timestamp),
     repeated |-> history.repeated \/ (/\ cfg.run_mode = "periodic" /\ cycle.invoked
                                       /\ obs.invoked /\ cycle.i = obs.i),
     retried |-> /\ cfg.run_mode = "continuous"
                 /\ cycle.outcome = "raised" /\ cycle.duplicate # None
                 /\ obs.duplicate # None
                 /\ obs.current_bar # None /\ obs.current_bar = cycle.current_bar]

Init ==
    /\ \E c \in Configs : \E fetched \in Fetches(c) : Constructed(c, fetched)
    /\ cycle = NoCycle
    /\ history = NoHistory
    /\ arg = None
    /\ ret = None

NoFetch == [granularities |-> <<>>, quote |-> EmptyFrame, aux |-> None]
NoSignal == List(<<>>)

\* a call of _update with the inputs it reads: the data source is asked in live
\* continuous mode only, and generate_signal returns a value only when it is called
Cycle(i, timestamp) ==
    \E fetched \in (IF cfg.run_mode = "continuous" /\ ~cfg.backtest_mode
                    THEN Fetches(cfg) ELSE {NoFetch}) :
        \E signal \in (IF _update(Self, i, timestamp, NoSignal, fetched).obs.invoked
                       THEN Signals ELSE {NoSignal}) :
            \E r \in {_update(Self, i, timestamp, signal, fetched)} :
                /\ Assign(r.self)
                /\ cycle' = r.obs
                /\ history' = Record(r.obs)
                /\ UNCHANGED <<cfg, arg, ret>>

\* _update(timestamp = t) in continuous mode
UpdateTimestamp ==
    /\ cfg.run_mode = "continuous"
    /\ \E timestamp \in Cutoffs : Cycle(0, timestamp)

\* _update(i) in periodic mode
UpdateIndex ==
    /\ cfg.run_mode = "periodic"
    /\ \E i \in 0..MaxTime : Cycle(i, 0)

Next == UpdateTimestamp \/ UpdateIndex

Spec == Init /\ [][Next]_vars

(***************************************************************************)
(* The windowing function on its own: every series, cutoff, indexing       *)
(* string, tail count and flag of the model, then the call.                *)
(***************************************************************************)
Idle ==
    /\ cfg = None /\ data = EmptyFrame /\ multi_data = None /\ auxdata = None
    /\ quote_data = EmptyFrame /\ strat_data = EmptyFrame /\ last_bar = None
    /\ latest_orders = <<>> /\ scan_results = None /\ backtest_summary = None
    /\ cycle = NoCycle /\ history = NoHistory

WindowArgs ==
    [ohlc_data : Frames(SUBSET Times, Flat), timestamp : Cutoffs,
     indexing : {"open", "close", "Open", "hourly"},
     tail_bars : {None} \cup {Some(n) : n \in (-1)..(MaxTime + 1)},
     check_for_future_data : BOOLEAN]

InitWindow == Idle /\ arg \in WindowArgs /\ ret = None

CheckOhlcData ==
    /\ ret = None
    /\ ret' = Some(_check_ohlc_data(arg.ohlc_data, arg.timestamp, arg.indexing,
                                    arg.tail_bars, arg.check_for_future_data))
    /\ UNCHANGED <<botvars, arg>>

NextWindow == CheckOhlcData

SpecWindow == InitWindow /\ [][NextWindow]_vars

(***************************************************************************)
(* The order normalizer on its own: every strategy output of the model,    *)
(* then the call.                                                          *)
(***************************************************************************)
\* the entries of a list or dict of orders: orders and order dicts with and without
\* a direction, and entries that are no orders
Entries ==
    {Value(py, Some(t[1]), t[2], None, <<>>) :
        py \in {"Order", "dict"},
        t \in {<<"market", None>>, <<"market", Some(1)>>, <<"limit", None>>, <<"close", None>>}}
    \cup {Value("Order", Some("reduce"), Some(-1), Some("GBPUSD"), <<>>),
          Value("dict", Some("market"), Some(-1), Some("GBPUSD"), <<>>),
          Value("str", None, None, None, <<>>),
          Value("dict", None, None, None, <<>>)}

\* a list of entries, each with its own identity
Identified(its) == [n \in 1..Len(its) |-> [its[n] EXCEPT !.id = n]]

EntryLists == UNION {{Identified(its) : its \in [1..n -> Entries]} : n \in 0..MaxLen}

\* a single value, a list, or a dict without the key 'order_type' holding the entries
StrategyOutputs ==
    {[e EXCEPT !.id = 1] : e \in Entries}
    \cup {Value(py, None, None, None, its) : py \in {"list", "dict"}, its \in EntryLists}

OrderBots == {c \in Configs : c.run_mode = "periodic" /\ c.backtest_mode}

InitOrders ==
    /\ Idle
    /\ arg \in [self : OrderBots, orders : StrategyOutputs]
    /\ ret = None

CheckOrders ==
    /\ ret = None
    /\ ret' = Some(_check_orders(arg.self, arg.orders))
    /\ UNCHANGED <<botvars, arg>>

NextOrders == CheckOrders

SpecOrders == InitOrders /\ [][NextOrders]_vars

(***************************************************************************)
(* The alignment of data and quote data on its own: every pair of series   *)
(* over the timestamps 1..MaxTime+2, then the call.                        *)
(***************************************************************************)
MatchTimes == 1..(MaxTime + 2)

RECURSIVE SortedRows(_, _)
\* the rows at the timestamps S in index order, each with the values vals
SortedRows(S, vals) ==
    IF S = {} THEN <<>>
    ELSE LET t == CHOOSE t \in S : \A u \in S : t <= u
         IN  <<[ts |-> t, vals |-> vals]>> \o SortedRows(S \ {t}, vals)

MatchArgs ==
    [data : {DataFrame(SortedRows(S, <<1, 1>>)) : S \in SUBSET MatchTimes},
     quote_data : {DataFrame(SortedRows(S, <<2, 2>>)) : S \in SUBSET MatchTimes}]

InitMatch == Idle /\ arg \in MatchArgs /\ ret = None

MatchQuoteData ==
    /\ ret = None
    /\ ret' = Some(_match_quote_data(arg.data, arg.quote_data))
    /\ UNCHANGED <<botvars, arg>>

NextMatch == MatchQuoteData

SpecMatch == InitMatch /\ [][NextMatch]_vars

(***************************************************************************)
(* The backtest summary on its own.  balance, NAV and margin are arrays of  *)
(* numbers with one point per bar; a quotient is kept exact as a fraction   *)
(* [num, den] with den > 0.                                                *)
(***************************************************************************)
MaxPoints == 4

Frac(num, den) == [num |-> num, den |-> den]

\* np.maximum.accumulate with the maximum of the whole array at every point
maximum_accumulate_overall(array) ==
    LET RECURSIVE highest(_)
        highest(n) == IF n = 1 THEN array[1] ELSE Max(highest(n - 1), array[n])
    IN  [n \in 1..Len(array) |-> highest(Len(array))]

\* np.maximum.accumulate(array)
RECURSIVE maximum_accumulate(_)
maximum_accumulate(array) ==
    IF array = <<>> THEN <<>>
    ELSE LET front == maximum_accumulate(SubSeq(array, 1, Len(array) - 1))
         IN  IF front = <<>> THEN <<array[1]>>
             ELSE Append(front, Max(front[Len(front)], array[Len(array)]))

\* np.array(a) / b, element by element
divide(a, b) == [n \in 1..Len(a) |-> Frac(a[n], b[n])]

\* q - 1, element by element
minus_one(q) == [n \in 1..Len(q) |-> Frac(q[n].num - q[n].den, q[n].den)]

\* AutoTraderBot._create_backtest_summary: the dict assigned to self.backtest_summary,
\* without the trade and order summaries the broker utilities build.  The four
\* columns are laid on the index trade_times (self.data.index when it is None), which
\* the drawdown array has to match in length
_create_backtest_summary(self, balance, NAV, margin, trade_times) ==
    LET index == IF trade_times = None
                 THEN [n \in 1..Len(self.data.rows) |-> self.data.rows[n].ts]
                 ELSE trade_times[1]
        laid(drawdown) ==
            IF Len(drawdown) # Len(index) THEN Raise("ValueError")
            ELSE Ok([data |-> self.data,
                     account_history |->
                         [n \in 1..Len(index) |->
                             [ts |-> index[n], balance |-> balance[n], NAV |-> NAV[n],
                              margin |-> margin[n], drawdown |-> drawdown[n]]],
                     instrument |-> self.instrument,
                     interval |-> self.granularity])
    IN  laid(minus_one(divide(NAV, maximum_accumulate(NAV))))

\* net asset values, those of NAV [100, 120, 90, 130] among them
NAVs == {90, 100, 120, 130}

RECURSIVE Arrays(_, _)
\* the arrays of at most n values of S
Arrays(S, n) ==
    IF n = 0 THEN {<<>>}
    ELSE Arrays(S, n - 1) \cup {Append(a, v) : a \in {a \in Arrays(S, n - 1) : Len(a) = n - 1}, v \in S}

\* one point per bar, at the timestamps 1, 2, ...; the balance is the NAV of an
\* account without open trades, or an array one point short of the index
SummaryArgs ==
    {[balance |-> NAV, NAV |-> NAV, margin |-> [n \in 1..Len(NAV) |-> 0],
      trade_times |-> Some([n \in 1..(Len(NAV) + extra) |-> n])] :
        NAV \in Arrays(NAVs, MaxPoints) \ {<<>>}, extra \in {0, 1}}

Backtested == [data |-> EmptyFrame, instrument |-> "EURUSD", granularity |-> "g1"]

InitSummary == Idle /\ arg \in SummaryArgs /\ ret = None

CreateBacktestSummary ==
    /\ ret = None
    /\ ret' = Some(_create_backtest_summary(Backtested, arg.balance, arg.NAV, arg.margin,
                                            arg.trade_times))
    /\ UNCHANGED <<botvars, arg>>

NextSummary == CreateBacktestSummary

SpecSummary == InitSummary /\ [][NextSummary]_vars

(***************************************************************************)
(* The bot in a backtest: the update cycles and the summary, which can be   *)
(* asked for at any time and any number of times.                          *)
(***************************************************************************)
\* the configurations of a backtest over a single series
BacktestConfigs == {c \in Configs : c.backtest_mode /\ Plain(c) /\ ~c.scan_mode}

\* balance, NAV and margin with one point per bar of self.data, the NAV flat or
\* falling after the first bar, on the index of the data or on one a point longer
LedgerArgs(self) ==
    {[balance |-> NAV, NAV |-> NAV, margin |-> [n \in 1..Len(NAV) |-> 0],
      trade_times |-> trade_times] :
        NAV \in {[n \in 1..len(self.data) |-> IF n = 1 THEN 100 ELSE low] : low \in {90, 100}},
        trade_times \in {None, Some([n \in 1..(len(self.data) + 1) |-> n])}}

InitBacktest ==
    /\ \E c \in BacktestConfigs : \E fetched \in Fetches(c) : Constructed(c, fetched)
    /\ cycle = NoCycle
    /\ history = NoHistory
    /\ arg = None
    /\ ret = None

\* a call of _create_backtest_summary on the bot: self.backtest_summary = backtest_dict
Summarise ==
    \E a \in LedgerArgs(Self) :
        \E r \in {_create_backtest_summary(Self, a.balance, a.NAV, a.margin, a.trade_times)} :
            /\ backtest_summary' = IF r.raised = "" THEN Some(r.value) ELSE backtest_summary
            /\ UNCHANGED <<cfg, data, multi_data, auxdata, quote_data, strat_data, last_bar,
                           latest_orders, scan_results, cycle, history, arg, ret>>

NextBacktest == UpdateTimestamp \/ UpdateIndex \/ Summarise

SpecBacktest == InitBacktest /\ [][NextBacktest]_vars

(***************************************************************************)
(* Claims                                                                  *)
(***************************************************************************)
Continuous == cfg # None /\ cfg.run_mode = "continuous"

\* a timestamp the strategy may see at cutoff T under the configured indexing
Visible(ts, T, indexing) ==
    (indexing = "open" => ts < T) /\ (indexing = "close" => ts <= T)

\* the time-indexed series of a data bundle: the bundle itself, or those among the
\* values of the dict and of the dicts in it
SeriesIn(bundle) ==
    IF IsTimeSeries(bundle) THEN {bundle}
    ELSE IF bundle.type # "dict" THEN {}
    ELSE UNION {LET v == bundle.items[n].value
                IN  IF IsTimeSeries(v) THEN {v}
                    ELSE IF v.type # "dict" THEN {}
                    ELSE {v.items[m].value : m \in {m \in 1..Len(v.items) :
                                                      IsTimeSeries(v.items[m].value)}} :
                n \in 1..Len(bundle.items)}

\* the auxiliary values of a bundle that are no time series, by key
PlainAux(bundle) ==
    IF bundle.type = "dict" /\ HasKey(bundle, "aux")
    THEN {it \in {Get(bundle, "aux").items[n] : n \in 1..Len(Get(bundle, "aux").items)} :
             ~IsTimeSeries(it.value)}
    ELSE {}

\* C1: in a continuous-mode cycle with cutoff T that invokes the strategy, no time
\* series of the bundle handed to generate_signal has a bar at or after T under
\* 'open' indexing or after T under 'close' indexing, and the auxiliary values that
\* are no time series are handed over as they are stored
C1_NoLookahead ==
    (Continuous /\ cycle.invoked) =>
        /\ \A d \in SeriesIn(cycle.strat_data[1]) : \A n \in 1..Len(d.rows) :
              Visible(d.rows[n].ts, cycle.timestamp, lower(cfg.data_indexing))
        /\ lower(cfg.data_indexing) \in {"open", "close"}
        /\ PlainAux(cycle.strat_data[1]) = PlainAux(strat_data)

\* C1 witness: a backtest cycle invoked the strategy on a base/aux bundle while the
\* stored base, auxiliary series and auxiliary value hold bars at or after the cutoff
C1_Witness ==
    /\ Continuous /\ cycle.invoked /\ cfg.backtest_mode /\ cfg.data_indexing = "open"
    /\ PlainAux(strat_data) # {}
    /\ \A d \in SeriesIn(strat_data) : \E n \in 1..Len(d.rows) : d.rows[n].ts >= cycle.timestamp
    /\ Cardinality(SeriesIn(cycle.strat_data[1])) >= 2

\* the number of bars of a series visible at the cutoff
VisibleCount(d, T, indexing) ==
    Cardinality({n \in 1..Len(d.rows) : Visible(d.rows[n].ts, T, indexing)})

\* C2: with indexing 'open' or 'close', _check_ohlc_data returns the k bars before
\* the cutoff ('open') or up to it ('close'), which stand first in the series, in
\* their order, and with tail_bars = n >= 0 the last min(n, k) of them
C2_WindowExact ==
    (ret # None /\ arg.check_for_future_data /\ arg.indexing \in {"open", "close"}
        /\ (arg.tail_bars = None \/ arg.tail_bars[1] >= 0)) =>
        LET k == VisibleCount(arg.ohlc_data, arg.timestamp, arg.indexing)
            m == IF arg.tail_bars = None THEN k ELSE Min(arg.tail_bars[1], k)
        IN  /\ ret[1].raised = ""
            /\ ret[1].value.rows = [j \in 1..m |-> arg.ohlc_data.rows[k - m + j]]
            /\ \A n \in 1..k : Visible(arg.ohlc_data.rows[n].ts, arg.timestamp, arg.indexing)

\* C2 witness: two bars are visible under 'close' indexing, a later one is not, and
\* of the two the last one, the bar at the cutoff, was returned
C2_Witness ==
    /\ ret # None /\ arg.check_for_future_data /\ arg.indexing = "close"
    /\ arg.tail_bars = Some(1) /\ arg.timestamp = 2
    /\ VisibleCount(arg.ohlc_data, arg.timestamp, "close") = 2
    /\ Len(arg.ohlc_data.rows) > 2
    /\ ret[1].raised = "" /\ Len(ret[1].value.rows) = 1 /\ ret[1].value.rows[1].ts = 2

\* C3: in continuous mode a cycle with nothing stored is no duplicate, and a cycle
\* that resolves the bar the cycle before it resolved is a duplicate and does not
\* invoke the strategy
C3_SameBarTwice ==
    [][(Continuous /\ cycle'.duplicate # None) =>
          /\ cycle'.before.last_bar = None => cycle'.duplicate = Some(FALSE)
          /\ (/\ cycle.duplicate # None /\ cycle.current_bar # None
              /\ cycle'.current_bar = cycle.current_bar) =>
                 (cycle'.duplicate = Some(TRUE) /\ ~cycle'.invoked)]_vars

\* C3 witness: the second of two cycles that resolved the same bar was a duplicate
C3_Witness ==
    /\ Continuous /\ cycle.duplicate = Some(TRUE) /\ ~cycle.invoked
    /\ cycle.current_bar # None /\ cycle.current_bar = cycle.before.last_bar
    /\ cycle.current_bar[1].name # None

\* C4: in continuous mode a cycle is a duplicate only if its current bar is the
\* stored bar in every field, the timestamp included
C4_DuplicateOnlyIfIdentical ==
    (Continuous /\ cycle.duplicate = Some(TRUE)) => cycle.current_bar = cycle.before.last_bar

\* C5: in continuous mode generate_signal is invoked at most once for a bar,
\* whatever the cutoff timestamps of the cycles
C5_AtMostOncePerBar == ~history.again

\* C5 as amended: in continuous mode generate_signal is invoked at most once for a
\* bar over cycles whose cutoff timestamps never decrease
C5_AtMostOncePerBarInOrder == history.monotone => ~history.again

\* C5 witness: with cutoffs in order, the strategy was invoked for a bar and a
\* later cycle that resolved the same bar was suppressed
C5_Witness ==
    /\ Continuous /\ history.monotone /\ cycle.duplicate = Some(TRUE)
    /\ Resolved(cycle) \in history.invoked

\* C6: a continuous-mode cycle with fewer bars than the lookback period does not
\* invoke the strategy and leaves the stored last bar as it was
C6_InsufficientKeepsLastBar ==
    (Continuous /\ cycle.sufficient_data = Some(FALSE)) =>
        (~cycle.invoked /\ last_bar = cycle.before.last_bar)

\* C6 as amended: a continuous-mode cycle with fewer bars than the lookback period
\* does not invoke the strategy, and stores its current bar (none without a visible
\* bar) as the last bar
C6_InsufficientStoresBar ==
    (Continuous /\ cycle.sufficient_data = Some(FALSE)) =>
        (~cycle.invoked /\ cycle.outcome = "skipped" /\ last_bar = cycle.current_bar)

\* C6 witness: a cycle with one bar under a lookback of two replaced the stored bar
C6_Witness ==
    /\ Continuous /\ cycle.sufficient_data = Some(FALSE) /\ cfg.period = 2
    /\ cycle.current_bar # None /\ cycle.before.last_bar # cycle.current_bar
    /\ last_bar = cycle.current_bar

\* C7: a skipped cycle calls nothing and leaves the order list and the scan results
\* as they were
C7_SkippedKeepsAll ==
    cycle.outcome = "skipped" =>
        /\ cycle.calls = <<>>
        /\ latest_orders = cycle.before.latest_orders
        /\ scan_results = cycle.before.scan_results

\* C7 as amended: a skipped cycle calls neither the strategy, the broker, the data
\* source nor a notification, empties _latest_orders, and leaves every attribute
\* other than _latest_orders and the stored last bar as it was
C7_SkippedKeepsAllButOrders ==
    [][cycle'.outcome = "skipped" =>
          /\ cycle'.calls = <<>> /\ ~cycle'.invoked
          /\ latest_orders' = <<>>
          /\ UNCHANGED <<cfg, data, multi_data, auxdata, quote_data, strat_data, scan_results>>]_vars

\* C7 witness: a duplicate cycle followed a scan hit, and another a placed order
C7_Witness ==
    /\ cycle.outcome = "skipped"
    /\ cycle.before.scan_results # None \/ cycle.before.latest_orders # <<>>
    /\ cfg.scan_mode => scan_results # None

Directionless(o) == o.order_type # None /\ o.order_type[1] \in DirectionalTypes /\ o.direction = None

\* C8: the list _check_orders returns holds no order of a directional type without
\* a direction
C8_NoDirectionlessOrder ==
    (ret # None /\ ret[1].raised = "") =>
        \A n \in 1..Len(ret[1].value) : ~Directionless(ret[1].value[n])

\* an entry that is an order: an Order, or a dict with an order type
WellFormed(e) == e.py = "Order" \/ (e.py = "dict" /\ e.order_type # None)

\* the entries of a strategy output
EntriesOf(orders) ==
    IF orders.py \in {"list", "dict"} /\ orders.order_type = None THEN orders.items
    ELSE <<orders>>

Ids(orders) == [n \in 1..Len(orders) |-> orders[n].id]

\* C9: when every entry of the output is an order, _check_orders does not raise and
\* the orders it returns that are not directional without a direction are the
\* entries of the output that are not, once each and in the output's order; an
\* empty list or dict gives the empty list
C9_ValidOrdersKept ==
    (ret # None /\ \A n \in 1..Len(EntriesOf(arg.orders)) : WellFormed(EntriesOf(arg.orders)[n])) =>
        /\ ret[1].raised = ""
        /\ Ids(SelectSeq(ret[1].value, LAMBDA o : ~Directionless(o)))
             = Ids(SelectSeq(EntriesOf(arg.orders), LAMBDA o : ~Directionless(o)))
        /\ \A n \in 1..Len(ret[1].value) : ret[1].value[n].py = "Order"
        /\ EntriesOf(arg.orders) = <<>> => ret[1].value = <<>>

\* C9 witness: a dict of three entries whose first has no direction gave the other two
C9_Witness ==
    /\ ret # None /\ arg.orders.py = "dict" /\ Len(arg.orders.items) = 3
    /\ Directionless(arg.orders.items[1])
    /\ ~Directionless(arg.orders.items[2]) /\ WellFormed(arg.orders.items[2])
    /\ ~Directionless(arg.orders.items[3]) /\ WellFormed(arg.orders.items[3])
    /\ arg.orders.items[3].order_type = Some("close")
    /\ ret[1].raised = "" /\ Ids(ret[1].value) = <<2, 3>>

\* a strategy output that is, or holds, an entry that is no order
Malformed(signal) ==
    \/ signal.py \notin {"Order", "dict", "list"}
    \/ /\ signal.py \in {"list", "dict"} /\ signal.order_type = None
       /\ \E n \in 1..Len(signal.items) : ~WellFormed(signal.items[n])

VenueOps == {"liveprice", "Order.__call__", "place_order", "write_to_order_summary", "send_order"}

EntryOf(order) ==
    LET es == EntriesOf(arg.orders)
    IN  es[CHOOSE n \in 1..Len(es) : es[n].id = order.id]

\* C11: every order of the list _check_orders returns carries the strategy name, the
\* granularity, the sizing and the risk percentage of the bot, and as instrument its
\* own when the entry it was made from had one and the instrument of the bot otherwise
C11_OrdersStamped ==
    (ret # None /\ ret[1].raised = "") =>
        \A n \in 1..Len(ret[1].value) :
            LET o == ret[1].value[n]
            IN  /\ o.strategy = Some(arg.self.strategy_name)
                /\ o.granularity = Some(arg.self.granularity)
                /\ o.sizing = Some(arg.self.sizing)
                /\ o.risk_pc = Some(arg.self.risk_pc)
                /\ o.instrument = IF EntryOf(o).instrument # None THEN EntryOf(o).instrument
                                  ELSE Some(arg.self.instrument)

\* C11 witness: a dict without an instrument and an Order with its own were both
\* normalized, the first to the instrument of the bot
C11_Witness ==
    /\ ret # None /\ ret[1].raised = "" /\ Len(ret[1].value) = 2
    /\ EntryOf(ret[1].value[1]).py = "dict" /\ EntryOf(ret[1].value[1]).instrument = None
    /\ ret[1].value[1].instrument = Some(arg.self.instrument)
    /\ EntryOf(ret[1].value[2]).py = "Order"
    /\ ret[1].value[2].instrument = Some("GBPUSD")
    /\ ret[1].value[2].strategy = Some(arg.self.strategy_name)

\* the quote of a cycle: the live price of the feed, or the quote made from the closes
\* of the current bar and of the quote bar
QuoteOf(c) ==
    IF cfg.req_liveprice THEN Quote("live", 0, 0)
    ELSE Quote("pseudo", Close(c.current_bar), Close(c.quote_bar))

\* an order carries the side of the quote its direction asks for
Priced(o, q) ==
    IF o.direction[1] < 0
    THEN o.order_price = Some(q.bid) /\ o.HCF = Some(q.negativeHCF)
    ELSE o.order_price = Some(q.ask) /\ o.HCF = Some(q.positiveHCF)

\* C12: every order _qualify_orders passes to Order.__call__ has a direction and gets
\* the bid price and the negative cost factor of the quote when its direction is
\* negative, the ask price and the positive cost factor otherwise; the quote is the
\* live price under req_liveprice and is made from the closes of the current bar and
\* of the quote bar otherwise; the orders placed carry these prices
C12_QuoteSideByDirection ==
    /\ \A n \in 1..Len(cycle.calls) :
          cycle.calls[n].op = "Order.__call__" =>
              /\ cycle.calls[n].order[1].direction # None
              /\ Priced(cycle.calls[n].order[1], QuoteOf(cycle))
    /\ cycle.outcome = "ran" =>
          \A n \in 1..Len(latest_orders) : Priced(latest_orders[n], QuoteOf(cycle))

\* C12 witness: a sell order was placed at the bid made from a close of 2 of the
\* current bar, with the cost factor made from the close of 1 of the quote bar
C12_Witness ==
    /\ cycle.outcome = "ran" /\ ~cfg.req_liveprice /\ Len(latest_orders) = 1
    /\ latest_orders[1].direction = Some(-1)
    /\ Close(cycle.current_bar) = 2 /\ Close(cycle.quote_bar) = 1
    /\ latest_orders[1].order_price = Some(<<"pseudo", "bid", 2>>)
    /\ latest_orders[1].HCF = Some(<<"pseudo", "negativeHCF", 1>>)

\* the calls of a cycle to an operation, in order
CallsTo(c, op) == SelectSeq(c.calls, LAMBDA call : call.op = op)

\* an order as it was before it was given a price
Unpriced(o) == [o EXCEPT !.order_price = None, !.HCF = None, !.order_time = None]

\* C13: in a cycle that is not skipped and whose strategy output is normalized, every
\* order of the normalized list is given a price once, in list order, with or without
\* a direction, when scanning as when trading, and all of them before the first is
\* placed
C13_EveryOrderQualifiedOnce ==
    (cycle.outcome \in {"ran", "raised"} /\ cycle.orders # None) =>
        /\ Len(CallsTo(cycle, "Order.__call__")) = Len(cycle.orders[1])
        /\ \A k \in 1..Len(CallsTo(cycle, "Order.__call__")) :
              Unpriced(CallsTo(cycle, "Order.__call__")[k].order[1]) = cycle.orders[1][k]
        /\ \A m, n \in 1..Len(cycle.calls) :
              (cycle.calls[m].op = "place_order" /\ cycle.calls[n].op = "Order.__call__")
                  => n < m

\* C13 for lists of orders that all have a direction, on bars that are rows
C13_DirectedOrdersQualifiedOnce ==
    (/\ cycle.outcome \in {"ran", "raised"} /\ cycle.orders # None
     /\ \A k \in 1..Len(cycle.orders[1]) : cycle.orders[1][k].direction # None
     /\ HasClose(cycle.current_bar) /\ HasClose(cycle.quote_bar))
        => C13_EveryOrderQualifiedOnce

\* the orders of a sequence of calls
OrdersOf(calls) == [n \in 1..Len(calls) |-> calls[n].order[1]]

\* an order as place_order receives it next to the order time
Placed(c) == OrdersOf(CallsTo(c, "place_order"))

\* C14: when scanning, no cycle calls place_order and _latest_orders is empty after
\* it; when trading, the orders that were given a price are each passed to
\* place_order once, in list order, with the timestamp of the current bar as order
\* time, and _latest_orders after the cycle is the sequence of the orders placed
C14_PlacedExactlyThePriced ==
    cycle.outcome \in {"ran", "raised"} =>
        IF cfg.scan_mode
        THEN Placed(cycle) = <<>> /\ latest_orders = <<>>
        ELSE /\ Placed(cycle) = OrdersOf(CallsTo(cycle, "Order.__call__"))
             /\ latest_orders = Placed(cycle)
             /\ \A n \in 1..Len(cycle.calls) :
                   cycle.calls[n].op = "place_order" =>
                       (HasName(cycle.current_bar)
                           /\ cycle.calls[n].info = cycle.current_bar[1].name)

\* C14 for the cycles that come to their end
C14_PlacedWhenCompleted ==
    cycle.outcome = "ran" => C14_PlacedExactlyThePriced

\* the rows of a series at the timestamps both series have, in the order of the series
Common(frame, other) ==
    SelectSeq(frame.rows, LAMBDA r : \E n \in 1..Len(other.rows) : other.rows[n].ts = r.ts)

\* C15: _match_quote_data returns the data and the quote data, each with its own rows
\* at the timestamps both have, in its own order and with no other row; without a
\* common timestamp both results are empty
C15_RestrictedToCommon ==
    ret # None =>
        /\ ret[1][1] = DataFrame(Common(arg.data, arg.quote_data))
        /\ ret[1][2] = DataFrame(Common(arg.quote_data, arg.data))
        /\ Index(ret[1][1]) = Index(arg.data) \cap Index(arg.quote_data)
        /\ Index(ret[1][2]) = Index(ret[1][1])
        /\ (Index(arg.data) \cap Index(arg.quote_data) = {}) =>
               (ret[1][1].rows = <<>> /\ ret[1][2].rows = <<>>)

\* C15 witness: the timestamps {1, 2, 3, 5} and {1, 2, 4, 5} both became {1, 2, 5}
C15_Witness ==
    /\ ret # None /\ arg # None
    /\ Index(arg.data) = {1, 2, 3, 5} /\ Index(arg.quote_data) = {1, 2, 4, 5}
    /\ [n \in 1..3 |-> ret[1][1].rows[n].ts] = <<1, 2, 5>>
    /\ [n \in 1..3 |-> ret[1][2].rows[n].ts] = <<1, 2, 5>>
    /\ Len(ret[1][1].rows) = 3 /\ Len(ret[1][2].rows) = 3
    /\ ret[1][2].rows[1].vals = <<2, 2>>

\* C16: after construction and after every cycle, whether it refreshed the data or
\* not, self.data and self.quote_data have the same set of timestamps
C16_DataAndQuoteAligned ==
    cfg # None => Index(data) = Index(quote_data)

\* C16 witness: a live cycle in continuous mode fetched data with every bar and quote
\* data without the bar at 2, and stored both without that bar
C16_Witness ==
    /\ Continuous /\ ~cfg.backtest_mode
    /\ cycle.calls # <<>> /\ cycle.calls[1].op = "_retrieve_data"
    /\ Index(data) = Times \ {2} /\ Index(quote_data) = Times \ {2}

\* a live cycle in continuous mode under a known indexing whose data retrieval did
\* not fail (the failure of the retrieval is the one Exception before the strategy)
LiveCycle ==
    /\ Continuous /\ ~cfg.backtest_mode /\ cycle.outcome # "none"
    /\ lower(cfg.data_indexing) \in {"open", "close"}
    /\ ~(cycle.raised = "Exception" /\ ~cycle.invoked)

\* C17: a live cycle in continuous mode first fetches the datasets, then resolves the
\* current bar without failing, and with enough bars and no duplicate calls
\* generate_signal once
C17_LiveCycleInvokes ==
    LiveCycle =>
        /\ cycle.calls # <<>> /\ cycle.calls[1].op = "_retrieve_data"
        /\ cycle.sufficient_data # None /\ cycle.duplicate # None
        /\ (cycle.sufficient_data = Some(TRUE) /\ cycle.duplicate = Some(FALSE)) =>
               Len(CallsTo(cycle, "generate_signal")) = 1

\* C17, what the code does: every such cycle fetches the datasets, stores them, and
\* raises UnboundLocalError before the current bar is resolved
C17_LiveCycleRaises ==
    LiveCycle =>
        /\ Len(cycle.calls) = 1 /\ cycle.calls[1].op = "_retrieve_data"
        /\ cycle.outcome = "raised" /\ cycle.raised = "UnboundLocalError"
        /\ ~cycle.invoked

\* a cycle of a bot in continuous mode whose indexing is neither 'open' nor 'close'
UnknownIndexingCycle ==
    /\ Continuous /\ cycle.outcome # "none"
    /\ lower(cfg.data_indexing) \notin {"open", "close"}

\* C18: with an indexing convention other than 'open' and 'close', every cycle in
\* continuous mode, in a backtest and in live trading alike, fails with the
\* configuration error of the indexing check, before the strategy is invoked and
\* before any order is submitted
C18_UnknownIndexingIsConfigurationError ==
    UnknownIndexingCycle =>
        /\ cycle.outcome = "raised" /\ cycle.raised = "Exception"
        /\ ~cycle.invoked /\ Placed(cycle) = <<>>

\* in a backtest the cycle ends in the Exception of the indexing check; in live
\* trading it ends in the UnboundLocalError every live cycle ends in, or in the
\* Exception of an empty retrieval; in neither is the strategy invoked or an order
\* submitted
C18_UnknownIndexingFailsBeforeStrategy ==
    UnknownIndexingCycle =>
        /\ cycle.outcome = "raised"
        /\ cfg.backtest_mode => cycle.raised = "Exception"
        /\ ~cfg.backtest_mode => cycle.raised \in {"UnboundLocalError", "Exception"}
        /\ ~cycle.invoked /\ Placed(cycle) = <<>>

\* a cycle whose call of _retrieve_data returned a base series with no rows, as it
\* was fetched or as the quote data left it
EmptyRetrieval(c) ==
    /\ c.outcome # "none"
    /\ c.calls # <<>> /\ c.calls[1].op = "_retrieve_data" /\ c.calls[1].info = Some(0)

Highest(array, n) == CHOOSE v \in {array[m] : m \in 1..n} : \A m \in 1..n : array[m] <= v

\* the fraction q is the number num / den
IsQuotient(q, num, den) == q.den > 0 /\ q.num * den = num * q.den

\* C20: for positive NAV values the drawdown at point i of the account history is
\* NAV[i] / max(NAV[0..i]) - 1: it is never above 0, it is 0 where NAV[i] is the
\* running maximum, and NAV [100, 120, 90, 130] gives [0, 0, -0.25, 0]
C20_DrawdownFromRunningMaximum ==
    (ret # None /\ ret[1].raised = "") =>
        LET account_history == ret[1].value.account_history
        IN  /\ Len(account_history) = Len(arg.NAV)
            /\ \A n \in 1..Len(account_history) :
                  /\ account_history[n].NAV = arg.NAV[n]
                  /\ IsQuotient(account_history[n].drawdown,
                                arg.NAV[n] - Highest(arg.NAV, n), Highest(arg.NAV, n))
                  /\ account_history[n].drawdown.num <= 0
                  /\ arg.NAV[n] = Highest(arg.NAV, n) => account_history[n].drawdown.num = 0
            /\ arg.NAV = <<100, 120, 90, 130>> =>
                  /\ \A n \in {1, 2, 4} : IsQuotient(account_history[n].drawdown, 0, 1)
                  /\ IsQuotient(account_history[3].drawdown, -1, 4)

\* the summary of NAV [100, 120, 90, 130] was created, with a drawdown below 0
C20_Witness ==
    /\ ret # None /\ ret[1].raised = "" /\ arg.NAV = <<100, 120, 90, 130>>
    /\ ret[1].value.account_history[3].drawdown.num < 0

\* C21: in a backtest backtest_summary is None from construction until
\* _create_backtest_summary is called, no update cycle creates or alters it, and once
\* it is created neither a cycle nor a further call of _create_backtest_summary
\* changes it
C21_SummaryWrittenOnce ==
    /\ backtest_summary = None
    /\ [][/\ (UpdateTimestamp \/ UpdateIndex) => UNCHANGED backtest_summary
          /\ backtest_summary # None => UNCHANGED backtest_summary]_vars

\* backtest_summary is None at construction, no update cycle changes it, and what
\* changes it leaves a summary: each call of _create_backtest_summary that returns
\* replaces the one before
C21_SummaryWrittenByEachCall ==
    /\ backtest_summary = None
    /\ [][/\ (UpdateTimestamp \/ UpdateIndex) => UNCHANGED backtest_summary
          /\ backtest_summary' # backtest_summary => backtest_summary' # None]_vars

\* a cycle in continuous mode that resolved its current bar and went on to the
\* duplicate check
CheckedCycle == Continuous /\ cycle.outcome # "none" /\ cycle.duplicate # None

Periodic == cfg # None /\ cfg.run_mode = "periodic"

\* C23: in periodic mode no cycle is declared a duplicate, so that every cycle whose
\* index is in the data invokes the strategy once, also with the index of the cycle
\* before; no cycle changes the stored last bar, and none refreshes the data
C23_DetectorInactive ==
    /\ Periodic => last_bar = None
    /\ [][Periodic =>
            /\ cycle'.duplicate # Some(TRUE)
            /\ cycle'.raised # "IndexError" =>
                   cycle'.invoked /\ Len(CallsTo(cycle', "generate_signal")) = 1
            /\ CallsTo(cycle', "_retrieve_data") = <<>>
            /\ UNCHANGED <<last_bar, data, multi_data, auxdata, quote_data, strat_data>>]_vars

\* the strategy was invoked in two cycles in a row with the same index
C23_Witness ==
    /\ Periodic /\ history.repeated /\ cycle.invoked /\ cycle.duplicate = Some(FALSE)
    /\ last_bar = None

\* the places of the calls of a cycle to an operation
PlacesOf(c, op) == {n \in 1..Len(c.calls) : c.calls[n].op = op}

\* a cycle that passed the test of sufficient data and no duplicate
Proceeded(c) == c.sufficient_data = Some(TRUE) /\ c.duplicate = Some(FALSE)

\* C24: in a backtest a cycle that is not skipped updates the simulated venue once,
\* with the cycle's current bar, before the strategy is invoked and before any order
\* is placed; a skipped cycle and a cycle outside a backtest never update it
C24_VenueUpdatedOnceBeforeStrategy ==
    cycle.outcome # "none" =>
        IF cfg.backtest_mode /\ Proceeded(cycle)
        THEN /\ Cardinality(PlacesOf(cycle, "_update_positions")) = 1
             /\ CallsTo(cycle, "_update_positions")[1].info = cycle.current_bar
             /\ \A u \in PlacesOf(cycle, "_update_positions") :
                   \A n \in PlacesOf(cycle, "generate_signal") \cup PlacesOf(cycle, "place_order") :
                       u < n
             /\ PlacesOf(cycle, "generate_signal") # {}
        ELSE PlacesOf(cycle, "_update_positions") = {}

\* a backtest cycle updated the venue, invoked the strategy and placed an order
C24_Witness ==
    /\ cfg.backtest_mode /\ Proceeded(cycle) /\ cycle.current_bar # None
    /\ PlacesOf(cycle, "_update_positions") # {} /\ PlacesOf(cycle, "place_order") # {}

\* a cycle in continuous mode whose normalized orders were handed to _qualify_orders
Qualifying == Continuous /\ cycle.outcome # "none" /\ cycle.orders # None

\* the current bar and the quote bar are rows with the same timestamp
SameTimestamp(c) ==
    /\ HasName(c.current_bar) /\ HasName(c.quote_bar)
    /\ c.current_bar[1].name = c.quote_bar[1].name

\* C25: in a cycle in continuous mode that reaches the price qualification the current
\* bar and the quote bar carry the same timestamp, whether the strategy data is a
\* single series, a multi-timeframe dataset or a base/aux composite
C25_BarsSameTimestamp == Qualifying => SameTimestamp(cycle)

\* the same for a bot whose strategy data is a single series
C25_BarsSameTimestampSingle ==
    (Qualifying /\ strat_data.type = "DataFrame") => SameTimestamp(cycle)

\* the scan reports of a cycle: what it printed and what it sent by e-mail
Reports(c) == CallsTo(c, "print") \o CallsTo(c, "send_scan_results")

\* C26: in scanning mode the scan report of a cycle holds a hit only if the strategy
\* invocation of that cycle gave at least one qualified order; a hit of an earlier
\* cycle is not reported again by a later cycle whose strategy returned no order
C26_ReportOnlyOwnHits ==
    (cfg # None /\ cfg.scan_mode /\ cycle.outcome = "ran") =>
        \A n \in 1..Len(Reports(cycle)) :
            Reports(cycle)[n].info # None => cycle.orders[1] # <<>>

\* the scan report of a cycle is the accumulator _scan_results, which holds a hit
\* from the first cycle with a qualified order on
C26_ReportAccumulatedHits ==
    (cfg # None /\ cfg.scan_mode /\ cycle.outcome = "ran") =>
        /\ \A n \in 1..Len(Reports(cycle)) : Reports(cycle)[n].info = scan_results
        /\ scan_results # None <=> (cycle.before.scan_results # None \/ cycle.orders[1] # <<>>)

\* the base series of the bundle handed to the strategy: the single series, the first
\* dataset of a multi-timeframe dict, or that of the base of a base/aux composite
BaseSeries(bundle) ==
    LET base == IF bundle.type = "dict" /\ HasKey(bundle, "aux") THEN Get(bundle, "base")
                ELSE bundle
    IN  IF base.type = "dict" THEN base.items[1].value ELSE base

\* C27: in a backtest in continuous mode with a lookback period of 1 or more, when the
\* strategy is invoked the base series of the bundle it receives has exactly `period`
\* bars and its last bar is the cycle's current bar
C27_BaseSeriesHasPeriodBars ==
    (Continuous /\ cfg.backtest_mode /\ cfg.period >= 1 /\ cycle.invoked) =>
        LET base == BaseSeries(cycle.strat_data[1])
            last == base.rows[Len(base.rows)]
        IN  /\ Len(base.rows) = cfg.period
            /\ cycle.current_bar # None /\ cycle.current_bar[1].vals = last.vals
            /\ base.type = "DataFrame" => cycle.current_bar = Some(Row(last))

\* the strategy was invoked on a multi-timeframe bundle whose first dataset was
\* truncated to the lookback period
C27_Witness ==
    /\ Continuous /\ cfg.backtest_mode /\ cycle.invoked /\ cfg.period = 2
    /\ cfg.data_filepaths = "dict" /\ ~cfg.aux
    /\ cycle.timestamp = MaxTime + 1
    /\ Len(BaseSeries(cycle.strat_data[1]).rows) = 2
    /\ cycle.current_bar[1].name = Some(MaxTime)

\* C28: in continuous mode the stored bar is updated before the strategy runs: when a
\* cycle raised after the duplicate check, the cycle after it that resolves the same
\* bar is declared a duplicate, does not invoke the strategy and submits no order
C28_AbortedBarCountsAsProcessed ==
    (Continuous /\ history.retried) =>
        /\ cycle.duplicate = Some(TRUE) /\ cycle.outcome = "skipped"
        /\ ~cycle.invoked /\ Placed(cycle) = <<>>
        /\ last_bar = cycle.current_bar

\* a cycle resolved the bar of the cycle before it, the only one that invoked the
\* strategy and one that raised after the duplicate check, and was skipped as a duplicate
C28_Witness ==
    /\ Continuous /\ history.retried /\ cycle.duplicate = Some(TRUE)
    /\ HasName(cycle.current_bar) /\ cycle.before.latest_orders = <<>>
    /\ history.invoked = {Resolved(cycle)}

====
